---- MODULE Spec2Model ----
(***************************************************************************)
(* The turtle-and-yoke simulation of src/main.py.                          *)
(*                                                                         *)
(* Coordinates are fixed-point integers: one unit is 1/111000 of a degree, *)
(* the distance main.py equates with one kilometre (line 55), so that      *)
(* every constant of the program is an integer: 0.01 deg = 1110,           *)
(* 0.005 deg = 555, 0.002 deg = 222, and a speed of s km/year is a step of *)
(* s units.  Floating-point rounding (about 1e-14 deg) is below the grid   *)
(* and is not modelled.                                                    *)
(***************************************************************************)
EXTENDS Integers, Sequences, FiniteSets

VARIABLES
    turtle,         \* Turtle:  [lat, lon]
    yoke,           \* Yoke:    [lat, lon, season_phase]
    years_passed,   \* simulate(): years_passed
    step,           \* simulate(): step, the breath counter
    out,            \* standard output: the sequence of lines printed so far
    pc,             \* position of simulate() in its loop
    turtle_moves,   \* number of Turtle.move calls made so far
    yoke_moves,     \* number of Yoke.move calls made so far
    y_year,         \* the year argument of the latest Yoke.move call
    t_before,       \* Turtle position before the latest stand-alone move call
    y_before,       \* Yoke position before the latest stand-alone move call
    x,              \* argument of the utility function under test
    r               \* its result

vars == <<turtle, yoke, years_passed, step, out, pc, turtle_moves, yoke_moves,
          y_year, t_before, y_before, x, r>>

simVars == <<turtle, yoke, years_passed, step, out, turtle_moves, yoke_moves, y_year>>

----------------------------------------------------------------------------
(* Units and program constants *)

KM_PER_DEG == 111000

Deg(d) == d * KM_PER_DEG

\* n thousandths of a degree, in units
Milli(n) == (n * KM_PER_DEG) \div 1000

YEARS_PER_BREATH == 100

SUCCESS_RADIUS == Milli(10)

SPEED_MIN == 1000

SPEED_MAX == 3000

Abs(n) == IF n < 0 THEN -n ELSE n

Max(a, b) == IF a >= b THEN a ELSE b

Min(a, b) == IF a <= b THEN a ELSE b

----------------------------------------------------------------------------
(* Utility functions *)

\* format_years: the decimal digits in groups of three, most significant
\* group first ("1,234,000" is <<1, 234, 0>>).
RECURSIVE format_years(_)
format_years(years) ==
    IF years < 1000 THEN <<years>>
    ELSE Append(format_years(years \div 1000), years % 1000)

clamp_lat_noUpper(lat) == Max(Deg(-90), lat)

clamp_lat(lat) == Max(Deg(-90), Min(Deg(90), lat))

wrap_lon_noElif(lon) == IF lon > Deg(180) THEN lon - Deg(360) ELSE lon

wrap_lon(lon) ==
    IF lon > Deg(180) THEN lon - Deg(360)
    ELSE IF lon < Deg(-180) THEN lon + Deg(360)
    ELSE lon

\* distance_deg(lat1, lon1, lat2, lon2) <= radius.  sqrt(a^2 + b^2) <= radius
\* iff a^2 + b^2 <= radius^2 for radius >= 0; the first two conjuncts follow
\* from the third and keep the squares within the integer range.
distance_deg_leq_strict(lat1, lon1, lat2, lon2, radius) ==
    /\ Abs(lat1 - lat2) <= radius
    /\ Abs(lon1 - lon2) <= radius
    /\ (lat1 - lat2) * (lat1 - lat2) + (lon1 - lon2) * (lon1 - lon2) < radius * radius

distance_deg_leq(lat1, lon1, lat2, lon2, radius) ==
    /\ Abs(lat1 - lat2) <= radius
    /\ Abs(lon1 - lon2) <= radius
    /\ (lat1 - lat2) * (lat1 - lat2) + (lon1 - lon2) * (lon1 - lon2) <= radius * radius

----------------------------------------------------------------------------
(* Trigonometry on the grid *)

\* A heading is a unit vector <<5 sin(angle), 5 cos(angle)>> with integer
\* entries: the four axis directions and the eight 3-4-5 directions.
EAST == <<0, 5>>

WEST == <<0, -5>>

AllHeadings ==
    {h \in (-5..5) \X (-5..5) : h[1] * h[1] + h[2] * h[2] = 25}

\* math.sin(angle) * delta_deg and math.cos(angle) * delta_deg; exact for the
\* speeds drawn, which are multiples of 5.
SinTimes(h, delta) == (h[1] * delta) \div 5

CosTimes(h, delta) == (h[2] * delta) \div 5

\* Angles of the seasonal term are counted in fiftieths of a radian, the
\* resolution of year / 50: pi is 157 of them and a full turn 314.
HALF_TURN == 157

\* amplitude * sin(t / 50) for 0 <= t <= HALF_TURN, rounded to the grid
\* (Bhaskara's rational approximation of the sine, within 5 units of
\* 1110 * math.sin and, like it, never beyond the amplitude).
HalfWave(amplitude, t) ==
    LET num == 16 * t * (HALF_TURN - t)
        den == 5 * HALF_TURN * HALF_TURN - 4 * t * (HALF_TURN - t)
    IN  (2 * amplitude * num + den) \div (2 * den)

\* amplitude * math.sin(theta / 50)
SinWave(amplitude, theta) ==
    LET t == theta % (2 * HALF_TURN)
    IN  IF t <= HALF_TURN THEN HalfWave(amplitude, t)
        ELSE -HalfWave(amplitude, t - HALF_TURN)

----------------------------------------------------------------------------
(* Turtle *)

\* Turtle.__init__: lat = uniform(-60, 60), lon = uniform(-180, 180)
TurtleNew(lat, lon) == [lat |-> lat, lon |-> lon]

Turtle_move_wrongFactor(t, angle, speed_km_per_year) ==
    LET delta_deg == speed_km_per_year * 1000
    IN  [lat |-> clamp_lat(t.lat + SinTimes(angle, delta_deg)),
         lon |-> wrap_lon(t.lon + CosTimes(angle, delta_deg))]

\* Turtle.move with the draws angle (a heading) and speed_km_per_year;
\* delta_deg = speed_km_per_year / 111_000 degrees is speed_km_per_year units.
Turtle_move(t, angle, speed_km_per_year) ==
    LET delta_deg == speed_km_per_year
    IN  [lat |-> clamp_lat(t.lat + SinTimes(angle, delta_deg)),
         lon |-> wrap_lon(t.lon + CosTimes(angle, delta_deg))]

----------------------------------------------------------------------------
(* Yoke *)

\* Yoke.__init__
YokeNew(lat, lon, season_phase) ==
    [lat |-> lat, lon |-> lon, season_phase |-> season_phase]

\* seasonal_drift = 0.01 * math.sin(self.season_phase + year / 50)
seasonal_drift(season_phase, year) == SinWave(Milli(10), season_phase + year)

Yoke_move_seasonalOnLon(y, year, current_lat, current_lon, wind_lat, wind_lon) ==
    [lat |-> clamp_lat(y.lat + current_lat + wind_lat
                         + seasonal_drift(y.season_phase, year)),
     lon |-> wrap_lon(y.lon + current_lon + wind_lon
                        + seasonal_drift(y.season_phase, year)),
     season_phase |-> y.season_phase]

\* Yoke.move(year) with the four draws of the call
Yoke_move(y, year, current_lat, current_lon, wind_lat, wind_lon) ==
    [lat |-> clamp_lat(y.lat + current_lat + wind_lat
                         + seasonal_drift(y.season_phase, year)),
     lon |-> wrap_lon(y.lon + current_lon + wind_lon),
     season_phase |-> y.season_phase]

----------------------------------------------------------------------------
(* simulate(): the driver.  Bounds and the draws explored. *)

\* Iterations start only while years_passed < MaxYears.
MaxYears == 200

\* Turtle.__init__ and Yoke.__init__ draws explored: the turtle starts on the
\* lower end of uniform(-180, 180), the yoke 90 units east of it.
SimTurtleLats == {-77038, 3023}

SimTurtleLons == {Deg(-180)}

SimYokeLats == {0}

SimYokeLons == {Deg(-180) + 90}

SimPhases == {59, 216}

\* Turtle.move draws explored by the driver: slowest or fastest, due east or
\* due west.
SimHeadings == {EAST, WEST}

SimSpeeds == {SPEED_MIN, SPEED_MAX}

\* Yoke.move draws explored by the driver: a steady westward current and wind.
SimCurrentLat == {0}

SimCurrentLon == {-Milli(10)}

SimWindLat == {0}

SimWindLon == {-Milli(2)}

\* years_passed % YEARS_PER_BREATH == 0
IsBreath_everyYear(years) == TRUE

IsBreath(years) == years % YEARS_PER_BREATH = 0

\* dist <= SUCCESS_RADIUS
Success_strict(t, y) ==
    distance_deg_leq_strict(t.lat, t.lon, y.lat, y.lon, SUCCESS_RADIUS)

Success(t, y) == distance_deg_leq(t.lat, t.lon, y.lat, y.lon, SUCCESS_RADIUS)

\* The lines simulate() prints.  The positions a breath line shows (to four
\* decimals) are those of turtle and yoke when it is printed; they are not
\* kept in out.
BannerLine == <<"Starting simulation...">>

BreathLine(n, years) == <<"Breath", n, format_years(years)>>

SuccessLine == <<"SUCCESS!">>

TotalLine(years) == <<"Total years passed", format_years(years)>>

InitSim ==
    /\ turtle \in {TurtleNew(lat, lon) : lat \in SimTurtleLats, lon \in SimTurtleLons}
    /\ yoke \in {YokeNew(lat, lon, ph) :
                    lat \in SimYokeLats, lon \in SimYokeLons, ph \in SimPhases}
    /\ years_passed = 0
    /\ step = 0
    /\ out = <<>>
    /\ pc = "start"
    /\ turtle_moves = 0
    /\ yoke_moves = 0
    /\ y_year = -1
    /\ t_before = turtle
    /\ y_before = yoke
    /\ x = 0
    /\ r = 0

\* line 115
Banner ==
    /\ pc = "start"
    /\ out' = Append(out, BannerLine)
    /\ pc' = "turtle"
    /\ UNCHANGED <<turtle, yoke, years_passed, step, turtle_moves, yoke_moves,
                   y_year, t_before, y_before, x, r>>

\* line 119: turtle.move()
SimTurtle ==
    /\ pc = "turtle"
    /\ years_passed < MaxYears
    /\ \E angle \in SimHeadings, speed \in SimSpeeds :
           turtle' = Turtle_move(turtle, angle, speed)
    /\ turtle_moves' = turtle_moves + 1
    /\ pc' = "yoke"
    /\ UNCHANGED <<yoke, years_passed, step, out, yoke_moves, y_year,
                   t_before, y_before, x, r>>

\* line 120: the argument of yoke.move
YokeArg_afterIncrement == years_passed + 1

YokeArg == years_passed

\* line 120: yoke.move(years_passed)
SimYoke ==
    /\ pc = "yoke"
    /\ \E cl \in SimCurrentLat, cn \in SimCurrentLon,
          wl \in SimWindLat, wn \in SimWindLon :
           yoke' = Yoke_move(yoke, YokeArg, cl, cn, wl, wn)
    /\ y_year' = YokeArg
    /\ yoke_moves' = yoke_moves + 1
    /\ pc' = "incr"
    /\ UNCHANGED <<turtle, years_passed, step, out, turtle_moves,
                   t_before, y_before, x, r>>

Increment_byTwo ==
    /\ pc = "incr"
    /\ years_passed' = years_passed + 2
    /\ pc' = "check"
    /\ UNCHANGED <<turtle, yoke, step, out, turtle_moves, yoke_moves, y_year,
                   t_before, y_before, x, r>>

\* line 122: years_passed += 1
Increment ==
    /\ pc = "incr"
    /\ years_passed' = years_passed + 1
    /\ pc' = "check"
    /\ UNCHANGED <<turtle, yoke, step, out, turtle_moves, yoke_moves, y_year,
                   t_before, y_before, x, r>>

Breath_successFirst ==
    /\ pc = "check"
    /\ IsBreath(years_passed)
    /\ step' = step + 1
    /\ IF Success(turtle, yoke)
       THEN /\ out' = out \o <<SuccessLine, TotalLine(years_passed),
                               BreathLine(step', years_passed)>>
            /\ pc' = "done"
       ELSE /\ out' = Append(out, BreathLine(step', years_passed))
            /\ pc' = "turtle"
    /\ UNCHANGED <<turtle, yoke, years_passed, turtle_moves, yoke_moves, y_year,
                   t_before, y_before, x, r>>

\* lines 125-143: a breath; the report, then the success test
Breath ==
    /\ pc = "check"
    /\ IsBreath(years_passed)
    /\ step' = step + 1
    /\ IF Success(turtle, yoke)
       THEN /\ out' = out \o <<BreathLine(step', years_passed), SuccessLine,
                               TotalLine(years_passed)>>
            /\ pc' = "done"
       ELSE /\ out' = Append(out, BreathLine(step', years_passed))
            /\ pc' = "turtle"
    /\ UNCHANGED <<turtle, yoke, years_passed, turtle_moves, yoke_moves, y_year,
                   t_before, y_before, x, r>>

\* line 125, condition false: back to the top of the loop
NoBreath ==
    /\ pc = "check"
    /\ ~IsBreath(years_passed)
    /\ pc' = "turtle"
    /\ UNCHANGED <<turtle, yoke, years_passed, step, out, turtle_moves,
                   yoke_moves, y_year, t_before, y_before, x, r>>

Next == Banner \/ SimTurtle \/ SimYoke \/ Increment \/ Breath \/ NoBreath

Spec == InitSim /\ [][Next]_vars

----------------------------------------------------------------------------
(* Turtle.move and Yoke.move called on their own, with a wider choice of   *)
(* draws and of the year argument.  The entities stand where a simulation  *)
(* can have them: where the constructors put them (latitude within 60      *)
(* degrees of the equator) or at a pole, which a run reaches after enough  *)
(* years of poleward draws (the turtle after 1110 years due north at full  *)
(* speed from 60 degrees north).                                           *)

\* At most MaxCalls move calls are made in a behaviour.
MaxCalls == 1

MoveTurtleLats == {Deg(-90), Deg(-60), Deg(60), Deg(90)}

MoveTurtleLons == {Deg(-180), 0, Deg(180) - 1}

MoveYokeLats == {Deg(60), Deg(90)}

MoveYokeLons == {Deg(-180), Deg(180) - 1}

MovePhases == {78, 235}

MoveSpeeds == {SPEED_MIN, 2000, SPEED_MAX}

MoveCurrentLat == {-Milli(5), Milli(5)}

MoveCurrentLon == {-Milli(10), Milli(10)}

MoveWindLat == {-Milli(2), Milli(2)}

MoveWindLon == {-Milli(2), Milli(2)}

MoveYears == {0, 1, 157}

InitMove ==
    /\ turtle \in {TurtleNew(lat, lon) : lat \in MoveTurtleLats, lon \in MoveTurtleLons}
    /\ yoke \in {YokeNew(lat, lon, ph) :
                    lat \in MoveYokeLats, lon \in MoveYokeLons, ph \in MovePhases}
    /\ years_passed = 0
    /\ step = 0
    /\ out = <<>>
    /\ pc = "call"
    /\ turtle_moves = 0
    /\ yoke_moves = 0
    /\ y_year = -1
    /\ t_before = turtle
    /\ y_before = yoke
    /\ x = 0
    /\ r = 0

CallTurtleMove ==
    /\ pc = "call"
    /\ turtle_moves + yoke_moves < MaxCalls
    /\ \E angle \in AllHeadings, speed \in MoveSpeeds :
           turtle' = Turtle_move(turtle, angle, speed)
    /\ t_before' = turtle
    /\ turtle_moves' = turtle_moves + 1
    /\ UNCHANGED <<yoke, years_passed, step, out, pc, yoke_moves, y_year,
                   y_before, x, r>>

CallYokeMove ==
    /\ pc = "call"
    /\ turtle_moves + yoke_moves < MaxCalls
    /\ \E year \in MoveYears, cl \in MoveCurrentLat, cn \in MoveCurrentLon,
          wl \in MoveWindLat, wn \in MoveWindLon :
           /\ yoke' = Yoke_move(yoke, year, cl, cn, wl, wn)
           /\ y_year' = year
    /\ y_before' = yoke
    /\ yoke_moves' = yoke_moves + 1
    /\ UNCHANGED <<turtle, years_passed, step, out, pc, turtle_moves,
                   t_before, x, r>>

NextMove == CallTurtleMove \/ CallYokeMove

MoveSpec == InitMove /\ [][NextMove]_vars

----------------------------------------------------------------------------
(* clamp_lat and wrap_lon applied to inputs around every threshold *)

\* Inputs lie within MaxOffset units of a whole number of degrees.
MaxOffset == 2

UtilDegrees == {-600, -540, -360, -180, -90, 0, 90, 180, 360, 540, 600}

UtilInputs == {Deg(d) + o : d \in UtilDegrees, o \in -MaxOffset..MaxOffset}

InitUtil ==
    /\ x \in UtilInputs
    /\ r = 0
    /\ pc = "input"
    /\ turtle = TurtleNew(0, 0)
    /\ yoke = YokeNew(0, 0, 0)
    /\ years_passed = 0
    /\ step = 0
    /\ out = <<>>
    /\ turtle_moves = 0
    /\ yoke_moves = 0
    /\ y_year = -1
    /\ t_before = turtle
    /\ y_before = yoke

ApplyClampLat ==
    /\ pc = "input"
    /\ r' = clamp_lat(x)
    /\ pc' = "clamp_lat"
    /\ UNCHANGED <<x, simVars, t_before, y_before>>

ApplyWrapLon ==
    /\ pc = "input"
    /\ r' = wrap_lon(x)
    /\ pc' = "wrap_lon"
    /\ UNCHANGED <<x, simVars, t_before, y_before>>

NextUtil == ApplyClampLat \/ ApplyWrapLon

UtilSpec == InitUtil /\ [][NextUtil]_vars

----------------------------------------------------------------------------
(* Properties *)

InLatRange(lat) == Deg(-90) <= lat /\ lat <= Deg(90)

\* (-180, 180]
InLonHalfOpen(lon) == Deg(-180) < lon /\ lon <= Deg(180)

\* [-180, 180]
InLonClosed(lon) == Deg(-180) <= lon /\ lon <= Deg(180)

\* C9: for every input x, clamp_lat(x) lies in [-90, 90]; it is x itself
\* for x in [-90, 90], 90 for x > 90 and -90 for x < -90, and clamping the
\* result again changes nothing.
C9_ClampLat ==
    pc = "clamp_lat" =>
        /\ InLatRange(r)
        /\ (InLatRange(x) => r = x)
        /\ (x > Deg(90) => r = Deg(90))
        /\ (x < Deg(-90) => r = Deg(-90))
        /\ clamp_lat(r) = r

\* clamp_lat has pinned an input beyond the north pole
C9_Witness == pc = "clamp_lat" /\ x > Deg(90) /\ r = Deg(90)

\* The three cases of wrap_lon on [-360, 360], as the claim words them.
WrapCasesHalfOpen ==
    /\ (Deg(180) < x /\ x <= Deg(360) => r = x - Deg(360))
    /\ (Deg(-360) <= x /\ x < Deg(-180) => r = x + Deg(360))
    /\ (InLonHalfOpen(x) => r = x)

\* One pass only: an input more than 540 degrees out is not brought back.
WrapSinglePass ==
    /\ (x > Deg(540) => r = x - Deg(360) /\ r > Deg(180))
    /\ (x < Deg(-540) => r = x + Deg(360) /\ r < Deg(-180))

\* C6 as stated: for every input x in [-360, 360], wrap_lon(x) lies in
\* (-180, 180], following the three cases; farther out it is a single pass.
C6_WrapLonHalfOpen ==
    pc = "wrap_lon" =>
        /\ (Deg(-360) <= x /\ x <= Deg(360) => InLonHalfOpen(r))
        /\ WrapCasesHalfOpen
        /\ WrapSinglePass

\* C6 amended: for every input x in [-360, 360], wrap_lon(x) lies in
\* [-180, 180]: x - 360 for x in (180, 360], x + 360 for x in [-360, -180)
\* and x itself for x in [-180, 180], so that -180 is returned unchanged;
\* farther out it is a single pass.
C6_WrapLonClosed ==
    pc = "wrap_lon" =>
        /\ (Deg(-360) <= x /\ x <= Deg(360) => InLonClosed(r))
        /\ WrapCasesHalfOpen
        /\ (x = Deg(-180) => r = x)
        /\ WrapSinglePass

\* wrap_lon has been applied to -180 and returned it
C6_Witness == pc = "wrap_lon" /\ x = Deg(-180) /\ r = Deg(-180)

----------------------------------------------------------------------------
(* Properties of the running simulation *)

EntitiesInLatRange == InLatRange(turtle.lat) /\ InLatRange(yoke.lat)

\* C1 as stated: in every reachable state of the simulation each entity's
\* latitude is in [-90, 90] and its longitude in (-180, 180].
C1_PositionsHalfOpen ==
    /\ EntitiesInLatRange
    /\ InLonHalfOpen(turtle.lon)
    /\ InLonHalfOpen(yoke.lon)

\* C1 amended: in every reachable state of the simulation each entity's
\* latitude is in [-90, 90] and its longitude in the closed interval
\* [-180, 180]; -180 itself can be drawn at creation and is left alone by
\* wrap_lon.
C1_PositionsClosed ==
    /\ EntitiesInLatRange
    /\ InLonClosed(turtle.lon)
    /\ InLonClosed(yoke.lon)

\* The turtle has moved and stands on -180 again, and the yoke has been
\* wrapped from the western edge to the eastern side.
C1_Witness ==
    /\ turtle_moves > 1
    /\ turtle.lon = Deg(-180)
    /\ yoke_moves > 0
    /\ yoke.lon > Deg(179)

\* The squared distance between the two entities is at most (or exactly)
\* SUCCESS_RADIUS squared.
LatGap == turtle.lat - yoke.lat

LonGap == turtle.lon - yoke.lon

GapSmall == Abs(LatGap) <= SUCCESS_RADIUS /\ Abs(LonGap) <= SUCCESS_RADIUS

Close ==
    GapSmall /\ LatGap * LatGap + LonGap * LonGap <= SUCCESS_RADIUS * SUCCESS_RADIUS

ExactlyAtRadius ==
    GapSmall /\ LatGap * LatGap + LonGap * LonGap = SUCCESS_RADIUS * SUCCESS_RADIUS

OnBoundary == years_passed > 0 /\ years_passed % 100 = 0

SuccessPrinted == \E i \in 1..Len(out) : out[i] = <<"SUCCESS!">>

\* C2: the driver halts and reports success only with years_passed, after
\* its increment, a positive multiple of 100 and the distance at most 0.01;
\* at any other year nothing is reported as success and the loop goes on,
\* however close the two are.
C2_SuccessOnlyAtBoundary ==
    /\ (pc = "done" => OnBoundary /\ Close)
    /\ (SuccessPrinted => pc = "done")
    /\ (~OnBoundary => pc # "done" /\ ~SuccessPrinted)

\* A near miss: within the radius at a year that is no multiple of 100, the
\* check of that year done and the loop back at its top.
C2_Witness ==
    /\ pc = "turtle"
    /\ years_passed % 100 = 97
    /\ Close
    /\ ~SuccessPrinted

\* The value a formatted year stands for.
RECURSIVE GroupsValue(_)
GroupsValue(g) ==
    IF Len(g) = 0 THEN 0
    ELSE 1000 * GroupsValue(SubSeq(g, 1, Len(g) - 1)) + g[Len(g)]

\* C3: at a breath (years_passed a multiple of 100) with the distance at
\* most 0.01, equality included, the driver prints the success block with
\* the current years_passed and halts in that same step; once halted,
\* nothing changes any more.
C3_SuccessAtBreath ==
    [][ /\ (pc = "check" /\ OnBoundary /\ Close =>
               /\ pc' = "done"
               /\ years_passed' = years_passed
               /\ out'[Len(out')][1] = "Total years passed"
               /\ GroupsValue(out'[Len(out')][2]) = years_passed
               /\ out'[Len(out') - 1] = <<"SUCCESS!">>)
        /\ (pc = "done" => UNCHANGED vars) ]_vars

\* The run has halted at a breath with the two exactly 0.01 apart.
C3_Witness == pc = "done" /\ OnBoundary /\ ExactlyAtRadius

\* Breath lines due so far: one per multiple of 100 reached, the one of the
\* current year not yet printed while its check is pending.
BreathsDue ==
    IF pc = "check" THEN (years_passed - 1) \div 100 ELSE years_passed \div 100

\* C4: one breath line per positive multiple of 100 reached and none at any
\* other year; the n-th carries breath number n and 100 * n years; the
\* last one precedes the success block.
C4_BreathReports ==
    pc # "start" =>
        /\ Len(out) = 1 + BreathsDue + (IF pc = "done" THEN 2 ELSE 0)
        /\ step = BreathsDue
        /\ \A n \in 1..BreathsDue :
               /\ Len(out[n + 1]) = 3
               /\ out[n + 1][1] = "Breath"
               /\ out[n + 1][2] = n
               /\ GroupsValue(out[n + 1][3]) = 100 * n
        /\ (pc = "done" => out[BreathsDue + 2] = <<"SUCCESS!">>)

\* Success at the second breath: two breath lines, then the success block.
C4_Witness ==
    /\ pc = "done"
    /\ years_passed = 200
    /\ Len(out) = 5
    /\ out[3][2] = 2

\* C5: the k-th Yoke.move call receives year = k - 1, the value of
\* years_passed before that iteration's increment: 0 at the first call and
\* 100 * n - 1 in the iteration that ends with the breath at year 100 * n.
C5_YokeSeesYearBeforeIncrement ==
    /\ (yoke_moves > 0 => y_year = yoke_moves - 1)
    /\ (yoke_moves = 0 => y_year = -1)
    /\ (pc = "incr" => y_year = years_passed)
    /\ (pc = "check" => y_year = years_passed - 1)

\* The check at year 100 is pending and the yoke was last moved with 99.
C5_Witness == pc = "check" /\ years_passed = 100 /\ y_year = 99 /\ yoke_moves = 100

\* C10: years_passed starts at 0 and grows by one per iteration, after one
\* turtle move and then one yoke move; at the top of the loop and after the
\* halt both call counts equal years_passed; season_phase never changes.
C10_Counting ==
    /\ years_passed = 0
    /\ [](/\ (pc \in {"start", "turtle", "check", "done"} =>
                 turtle_moves = years_passed /\ yoke_moves = years_passed)
          /\ (pc = "yoke" =>
                 turtle_moves = years_passed + 1 /\ yoke_moves = years_passed)
          /\ (pc = "incr" =>
                 turtle_moves = years_passed + 1 /\ yoke_moves = years_passed + 1))
    /\ [][ /\ years_passed' \in {years_passed, years_passed + 1}
           /\ yoke'.season_phase = yoke.season_phase ]_vars

\* Top of the loop after 150 whole iterations.
C10_Witness ==
    /\ pc = "turtle"
    /\ years_passed = 150
    /\ turtle_moves = 150
    /\ yoke_moves = 150

----------------------------------------------------------------------------
(* Properties of a single move call *)

\* The longitude change measured around the circle of 360 degrees.
AroundCircle(d) == Min(Abs(d), Deg(360) - Abs(d))

TurtleLatChange == turtle.lat - t_before.lat

TurtleLonChange == turtle.lon - t_before.lon

\* C7 as stated: one Turtle.move call displaces the stored position by at
\* most 3000/111000 degrees, and so changes latitude and longitude each by
\* at most that much.
C7_TurtleStepBounded ==
    turtle_moves > 0 =>
        /\ Abs(TurtleLatChange) <= SPEED_MAX
        /\ Abs(TurtleLonChange) <= SPEED_MAX
        /\ TurtleLatChange * TurtleLatChange + TurtleLonChange * TurtleLonChange
               <= SPEED_MAX * SPEED_MAX

\* C7 amended: one Turtle.move call changes the stored latitude by at most
\* 3000/111000 degrees and the stored longitude by at most 3000/111000
\* degrees measured around the circle (modulo 360): a call that wraps the
\* longitude changes the stored value by 360 less at most 3000/111000.  The
\* displacement, with the longitude change so measured, is at most
\* 3000/111000.
C7_TurtleStepBoundedModWrap ==
    turtle_moves > 0 =>
        /\ Abs(TurtleLatChange) <= SPEED_MAX
        /\ AroundCircle(TurtleLonChange) <= SPEED_MAX
        /\ TurtleLatChange * TurtleLatChange
             + AroundCircle(TurtleLonChange) * AroundCircle(TurtleLonChange)
               <= SPEED_MAX * SPEED_MAX
        /\ (Abs(TurtleLonChange) > SPEED_MAX =>
               Abs(TurtleLonChange) >= Deg(360) - SPEED_MAX)

\* A call at full speed on a 3-4-5 heading has taken the turtle across the
\* 180th meridian.
C7_Witness ==
    /\ turtle_moves > 0
    /\ Abs(TurtleLonChange) > Deg(359)
    /\ TurtleLatChange * TurtleLatChange
         + AroundCircle(TurtleLonChange) * AroundCircle(TurtleLonChange)
           = SPEED_MAX * SPEED_MAX
    /\ TurtleLatChange # 0

YokeLatChange == yoke.lat - y_before.lat

YokeLonChange == yoke.lon - y_before.lon

\* C8 as stated: one Yoke.move call changes the stored latitude by at most
\* 0.005 + 0.002 + 0.01 = 0.017 degrees and the stored longitude by at most
\* 0.01 + 0.002 = 0.012 degrees.
C8_YokeStepBounded ==
    yoke_moves > 0 =>
        /\ Abs(YokeLatChange) <= Milli(17)
        /\ Abs(YokeLonChange) <= Milli(12)

\* C8 amended: one Yoke.move call changes the stored latitude by at most
\* 0.017 degrees and the stored longitude by at most 0.012 degrees measured
\* around the circle (modulo 360): a call that wraps the longitude changes
\* the stored value by 360 less at most 0.012.
C8_YokeStepBoundedModWrap ==
    yoke_moves > 0 =>
        /\ Abs(YokeLatChange) <= Milli(17)
        /\ AroundCircle(YokeLonChange) <= Milli(12)
        /\ (Abs(YokeLonChange) > Milli(12) =>
               Abs(YokeLonChange) >= Deg(360) - Milli(12))

\* A call with every draw and the seasonal term at their maximum: the
\* latitude has changed by the full 0.017 and the longitude has wrapped.
C8_Witness ==
    /\ yoke_moves > 0
    /\ Abs(YokeLatChange) = Milli(17)
    /\ Abs(YokeLonChange) > Deg(359)
    /\ AroundCircle(YokeLonChange) = Milli(12)

====
